---- MODULE Spec2Model ----
(***************************************************************************)
(* A model of BentoML's micro-batching layer.                              *)
(*                                                                         *)
(*   bentoml/marshal/marshal.py                                            *)
(*     Parade            a batch: inputs, outputs, status, a Condition     *)
(*     ParadeDispatcher  get_parade and the per-request coroutine _func    *)
(*   bentoml/handlers/tensorflow_tensor_handler.py                         *)
(*     TensorflowTensorHandler.handle_batch_request                        *)
(*                                                                         *)
(* The marshal runs on one asyncio event loop: a coroutine runs without    *)
(* interruption from one suspension point (await that really suspends) to  *)
(* the next, so every action below is one such run.  The lock of           *)
(* Parade.returned (an asyncio.Condition) is only ever held inside one     *)
(* run, so acquiring it never suspends and it is not a variable here.      *)
(***************************************************************************)
EXTENDS Integers, Sequences, FiniteSets, TLC

\* ------------------------------------------------------------------ bounds
NumCallers == 3     \* requests submitted to the dispatcher
NumPayloads == 2    \* distinct request payloads
MaxReqs == 3        \* requests in one handle_batch_request call
MaxInst == 2        \* instances carried by one request
NumNames == 2       \* endpoint names seen by the MarshalService
NumLatencies == 2   \* distinct max_latency values passed to add_batch_handler
NumRequests == 2    \* requests handled by request_dispatcher
MaxFeeds == 1       \* calls of Parade.feed made from outside the dispatcher

Callers == 1..NumCallers
Parades == 1..NumCallers      \* every Parade is created by some submit
Payloads == 1..NumPayloads
Names == 1..NumNames
Latencies == 1..NumLatencies
Requests == 1..NumRequests

\* --------------------------------------------------------------- constants
\* Parade.STATUSES = (STATUS_OPEN, STATUS_CLOSED, STATUS_RETURNED,) = range(3)
STATUS_OPEN == 0
STATUS_CLOSED == 1
STATUS_RETURNED == 2

\* Python's None where the other values are tuples; Some(x) is a value that
\* is not None
None == <<>>
Some(x) == <<x>>
\* self._current_parade = None
NoParade == 0

VARIABLES
    \* ParadeDispatcher
    current,        \* self._current_parade: None or a Parade
    nParades,       \* how many Parade objects have been constructed
    \* Parade, per object
    status,         \* self.status
    batch_input,    \* self.batch_input: OrderedDict as a sequence of <<id, data>>
    batch_output,   \* self.batch_output: None or Some(sequence of <<id, output>>)
    waiters,        \* self.returned._waiters: callers suspended in wait()
    tpc,            \* position of the Parade's start_wait task
    calls,          \* how many times the bulk function was called for the Parade
    bulkArgs,       \* what the bulk function (call) was called with
    bulkOut,        \* what the bulk function returned
    outKind,        \* which return statement of the bulk function produced it
    notified,       \* notify_all has run
    \* _func, per caller
    cpc,            \* position of the caller's _func coroutine
    payload,        \* inputs
    parade,         \* the local variable parade
    result,         \* the value _func returned
    admitAt,        \* the order in which feed admitted the callers
    clock,
    \* handle_batch_request
    hpc,            \* "off", "ready", "returned", "raised"
    requests,       \* the argument requests
    responses,      \* the returned list
    \* MarshalService
    batch_handlers, \* self.batch_handlers: name -> NoHandler or a dispatcher
    interval,       \* ParadeDispatcher.interval of each dispatcher made, in order
    reasked,        \* add_batch_handler was called for a registered name, with another max_latency
    \* request_dispatcher, per request
    rpc,            \* "idle", "batched", "batched_done", "relaying", "relayed", "failed"
    rname,          \* request.match_info['name']
    rdisp,          \* the dispatcher the request was handed to
    sent,           \* the backend calls made for the request: <<name, body>>
    answer,         \* the backend's response to the relayed call
    rresp,          \* the response request_dispatcher returned
    \* Parade.feed called directly
    nFeeds,         \* how many such calls were made
    feedOn,         \* the Parade of the last one
    feedRet         \* how it ended: "none", "True", "AssertionError"

mvars == <<current, nParades, status, batch_input, batch_output, waiters, tpc,
           calls, bulkArgs, bulkOut, outKind, notified, cpc, payload, parade, result,
           admitAt, clock>>
hvars == <<hpc, requests, responses>>
svars == <<batch_handlers, interval, reasked, rpc, rname, rdisp, sent, answer, rresp>>
fvars == <<nFeeds, feedOn, feedRet>>
ovars == <<hvars, svars, fvars>>
vars == <<mvars, hvars, svars, fvars>>

\* ------------------------------------------------------------ OrderedDict
Keys(od) == [i \in 1..Len(od) |-> od[i][1]]
Values(od) == [i \in 1..Len(od) |-> od[i][2]]
Min(a, b) == IF a <= b THEN a ELSE b

\* OrderedDict.get(key): the value stored under key, None when absent
Get(od, k) ==
    IF \E i \in 1..Len(od) : od[i][1] = k
    THEN od[CHOOSE i \in 1..Len(od) : od[i][1] = k][2]
    ELSE None

\* ------------------------------------------------------------------ Parade
\* Parade.feed, after its assertion: self.batch_input[id_] = data
\* (id_ is a fresh uuid4, so the key is new and goes last)
feed_Prepend(od, id, data) == <<(<<id, data>>)>> \o od
feed(od, id, data) == Append(od, <<id, data>>)

\* OrderedDict([(k, v) for k, v in zip(self.batch_input.keys(), outputs)])
ZipOutputs_Reversed(od, outputs) ==
    [i \in 1..Min(Len(od), Len(outputs)) |->
        <<Keys(od)[i], outputs[Min(Len(od), Len(outputs)) + 1 - i]>>]
ZipOutputs(od, outputs) ==
    [i \in 1..Min(Len(od), Len(outputs)) |-> <<Keys(od)[i], outputs[i]>>]

\* start_wait's finally clause, run on every exit: self.status = STATUS_CLOSED
\* whatever the try block left in self.status
FinallyStatus(st) == STATUS_CLOSED

\* Condition.notify_all: the waiters whose futures are resolved
notify_one(ws) == IF ws = {} THEN {} ELSE {CHOOSE w \in ws : TRUE}
notify_all(ws) == ws

\* -------------------------------------------------------- ParadeDispatcher
\* get_parade: the test that decides whether a new Parade is made
NeedNewParade_Always == TRUE
NeedNewParade_Stale == current = NoParade
NeedNewParade == ~(current # NoParade /\ status[current] = STATUS_OPEN)

MInit ==
    /\ current = NoParade
    /\ nParades = 0
    /\ status = [p \in Parades |-> STATUS_OPEN]
    /\ batch_input = [p \in Parades |-> <<>>]
    /\ batch_output = [p \in Parades |-> None]
    /\ waiters = [p \in Parades |-> {}]
    /\ tpc = [p \in Parades |-> "none"]
    /\ calls = [p \in Parades |-> 0]
    /\ bulkArgs = [p \in Parades |-> <<>>]
    /\ bulkOut = [p \in Parades |-> <<>>]
    /\ outKind = [p \in Parades |-> "none"]
    /\ notified = [p \in Parades |-> FALSE]
    /\ cpc = [c \in Callers |-> "idle"]
    /\ payload = [c \in Callers |-> 0]
    /\ parade = [c \in Callers |-> NoParade]
    /\ result = [c \in Callers |-> None]
    /\ admitAt = [c \in Callers |-> 0]
    /\ clock = 0

HOff ==
    /\ hpc = "off"
    /\ requests = <<>>
    /\ responses = <<>>

\* MarshalService.__init__: self.batch_handlers = dict(); no request yet
NoHandler == 0

SInit ==
    /\ batch_handlers = [n \in Names |-> NoHandler]
    /\ interval = <<>>
    /\ reasked = FALSE
    /\ rpc = [r \in Requests |-> "idle"]
    /\ rname = [r \in Requests |-> 0]
    /\ rdisp = [r \in Requests |-> NoHandler]
    /\ sent = [r \in Requests |-> <<>>]
    /\ answer = [r \in Requests |-> None]
    /\ rresp = [r \in Requests |-> None]

FInit ==
    /\ nFeeds = 0
    /\ feedOn = NoParade
    /\ feedRet = "none"

Init == MInit /\ HOff /\ SInit /\ FInit

\* _func(inputs) up to its suspension in parade.returned.wait():
\* id_ = uuid4, get_parade (which may construct a Parade and create its
\* start_wait task), feed, acquire the condition's lock, wait.
Submit(c, d) ==
    /\ cpc[c] = "idle"
    /\ \A c2 \in Callers : c2 < c => cpc[c2] # "idle"   \* callers are numbered by arrival
    /\ d <= 1 + Cardinality({payload[c2] : c2 \in {x \in Callers : cpc[x] # "idle"}})
                                     \* payloads are opaque: numbered by first use
    /\ LET new == NeedNewParade
           p == IF new THEN nParades + 1 ELSE current
           st == IF new THEN STATUS_OPEN ELSE status[p]
       IN /\ p \in Parades
          /\ nParades' = IF new THEN nParades + 1 ELSE nParades
          /\ current' = p
          /\ status' = IF new THEN [status EXCEPT ![p] = STATUS_OPEN] ELSE status
          /\ tpc' = IF new THEN [tpc EXCEPT ![p] = "scheduled"] ELSE tpc
          /\ parade' = [parade EXCEPT ![c] = p]
          /\ payload' = [payload EXCEPT ![c] = d]
          /\ IF st = STATUS_OPEN      \* feed: assert self.status == STATUS_OPEN
             THEN /\ batch_input' = [batch_input EXCEPT ![p] = feed(@, c, d)]
                  /\ waiters' = [waiters EXCEPT ![p] = @ \cup {c}]
                  /\ cpc' = [cpc EXCEPT ![c] = "waiting"]
                  /\ clock' = clock + 1
                  /\ admitAt' = [admitAt EXCEPT ![c] = clock + 1]
             ELSE /\ cpc' = [cpc EXCEPT ![c] = "raised"]     \* AssertionError
                  /\ UNCHANGED <<batch_input, waiters, clock, admitAt>>
    /\ UNCHANGED <<batch_output, calls, bulkArgs, bulkOut, outKind, notified, result, ovars>>

\* start_wait's first run: enters the try and suspends in asyncio.sleep
StartWait(p) ==
    /\ tpc[p] = "scheduled"
    /\ tpc' = [tpc EXCEPT ![p] = "sleeping"]
    /\ UNCHANGED <<current, nParades, status, batch_input, batch_output, waiters,
                   calls, bulkArgs, bulkOut, outKind, notified, cpc, payload, parade, result,
                   admitAt, clock, ovars>>

\* start_wait after the sleep: status = CLOSED, then the bulk call is made
\* and awaited
WindowElapsed_NoClose(p) ==
    /\ tpc[p] = "sleeping"
    /\ tpc' = [tpc EXCEPT ![p] = "calling"]
    /\ calls' = [calls EXCEPT ![p] = @ + 1]
    /\ bulkArgs' = [bulkArgs EXCEPT ![p] = Values(batch_input[p])]
    /\ UNCHANGED <<current, nParades, status, batch_input, batch_output, waiters,
                   bulkOut, outKind, notified, cpc, payload, parade, result, admitAt, clock,
                   ovars>>
WindowElapsed_NotifyEarly(p) ==
    /\ tpc[p] = "sleeping"
    /\ tpc' = [tpc EXCEPT ![p] = "calling"]
    /\ status' = [status EXCEPT ![p] = STATUS_CLOSED]
    /\ calls' = [calls EXCEPT ![p] = @ + 1]
    /\ bulkArgs' = [bulkArgs EXCEPT ![p] = Values(batch_input[p])]
    /\ batch_output' = [batch_output EXCEPT ![p] = Some(<<>>)]
    /\ notified' = [notified EXCEPT ![p] = TRUE]
    /\ waiters' = [waiters EXCEPT ![p] = {}]
    /\ cpc' = [c \in Callers |-> IF c \in waiters[p] THEN "woken" ELSE cpc[c]]
    /\ UNCHANGED <<current, nParades, batch_input, bulkOut, outKind, payload, parade,
                   result, admitAt, clock, ovars>>
WindowElapsed(p) ==
    /\ tpc[p] = "sleeping"
    /\ tpc' = [tpc EXCEPT ![p] = "calling"]
    /\ status' = [status EXCEPT ![p] = STATUS_CLOSED]
    /\ calls' = [calls EXCEPT ![p] = @ + 1]
    /\ bulkArgs' = [bulkArgs EXCEPT ![p] = Values(batch_input[p])]
    /\ UNCHANGED <<current, nParades, batch_input, batch_output, waiters, bulkOut, outKind,
                   notified, cpc, payload, parade, result, admitAt, clock, ovars>>

\* The outputs of the bulk call of Parade p: n opaque values, the i-th being
\* "the output at position i of p's call".
Outputs(p, n) == [i \in 1..n |-> <<p, i>>]

\* The lengths the bulk function may return for N inputs
OutLens(N) == {n \in {N - 1, N, N + 1} : n >= 0}

\* start_wait when the bulk call returns n outputs: batch_output is zipped,
\* status = RETURNED, notify_all under the lock, and the finally clause sets
\* status = CLOSED, all in one run.
Returns_NoOutput(p, n, kind) ==
    /\ tpc[p] = "calling"
    /\ tpc' = [tpc EXCEPT ![p] = "finished"]
    /\ bulkOut' = [bulkOut EXCEPT ![p] = Outputs(p, n)]
    /\ outKind' = [outKind EXCEPT ![p] = kind]
    /\ status' = [status EXCEPT ![p] = FinallyStatus(STATUS_RETURNED)]
    /\ notified' = [notified EXCEPT ![p] = TRUE]
    /\ LET woken == notify_all(waiters[p])
       IN /\ waiters' = [waiters EXCEPT ![p] = @ \ woken]
          /\ cpc' = [c \in Callers |-> IF c \in woken THEN "woken" ELSE cpc[c]]
    /\ UNCHANGED <<current, nParades, batch_input, batch_output, calls, bulkArgs, payload,
                   parade, result, admitAt, clock, ovars>>
Returns(p, n, kind) ==
    /\ tpc[p] = "calling"
    /\ tpc' = [tpc EXCEPT ![p] = "finished"]
    /\ bulkOut' = [bulkOut EXCEPT ![p] = Outputs(p, n)]
    /\ outKind' = [outKind EXCEPT ![p] = kind]
    /\ batch_output' = [batch_output EXCEPT
                           ![p] = Some(ZipOutputs(batch_input[p], Outputs(p, n)))]
    /\ status' = [status EXCEPT ![p] = FinallyStatus(STATUS_RETURNED)]
    /\ notified' = [notified EXCEPT ![p] = TRUE]
    /\ LET woken == notify_all(waiters[p])
       IN /\ waiters' = [waiters EXCEPT ![p] = @ \ woken]
          /\ cpc' = [c \in Callers |-> IF c \in woken THEN "woken" ELSE cpc[c]]
    /\ UNCHANGED <<current, nParades, batch_input, calls, bulkArgs, payload, parade,
                   result, admitAt, clock, ovars>>

\* The bulk function ends in "return resps" (marshal.py line 129, or any other
\* callback's return) with n outputs.
BulkReturn(p, n) ==
    /\ n \in OutLens(Len(batch_input[p]))
    /\ Returns(p, n, "resps")

\* The bulk function of add_batch_handler finds resps is None (the merged
\* response could not be split) and returns
\* [aiohttp.web.HTTPInternalServerError] * len(requests)
FallbackLen_Short(N) == IF N > 0 THEN N - 1 ELSE 0
FallbackLen(N) == N
BulkFallback(p) ==
    /\ tpc[p] = "calling"
    /\ Returns(p, FallbackLen(Len(batch_input[p])), "fallback")

\* start_wait when the bulk call raises: re-raised into the task, the finally
\* clause sets status = CLOSED; nothing is notified.
BulkRaise_Notifies(p) ==
    /\ tpc[p] = "calling"
    /\ tpc' = [tpc EXCEPT ![p] = "raised"]
    /\ status' = [status EXCEPT ![p] = FinallyStatus(status[p])]
    /\ notified' = [notified EXCEPT ![p] = TRUE]
    /\ LET woken == notify_all(waiters[p])
       IN /\ waiters' = [waiters EXCEPT ![p] = @ \ woken]
          /\ cpc' = [c \in Callers |-> IF c \in woken THEN "woken" ELSE cpc[c]]
    /\ UNCHANGED <<current, nParades, batch_input, batch_output, calls, bulkArgs,
                   bulkOut, outKind, payload, parade, result, admitAt, clock, ovars>>
BulkRaise_Retry(p) ==
    /\ tpc[p] = "calling"
    /\ tpc' = [tpc EXCEPT ![p] = IF calls[p] < 2 THEN "sleeping" ELSE "raised"]
    /\ status' = [status EXCEPT ![p] = FinallyStatus(status[p])]
    /\ UNCHANGED <<current, nParades, batch_input, batch_output, waiters, calls, bulkArgs,
                   bulkOut, outKind, notified, cpc, payload, parade, result, admitAt, clock,
                   ovars>>
BulkRaise(p) ==
    /\ tpc[p] = "calling"
    /\ tpc' = [tpc EXCEPT ![p] = "raised"]
    /\ status' = [status EXCEPT ![p] = FinallyStatus(status[p])]
    /\ UNCHANGED <<current, nParades, batch_input, batch_output, waiters, calls, bulkArgs,
                   bulkOut, outKind, notified, cpc, payload, parade, result, admitAt, clock,
                   ovars>>

\* _func after its future was resolved: wait() re-acquires the lock, the
\* async with releases it, return parade.batch_output.get(id_)
Resume_FromCurrent(c) ==
    /\ cpc[c] = "woken"
    /\ IF batch_output[current] = None
       THEN /\ cpc' = [cpc EXCEPT ![c] = "raised"]
            /\ UNCHANGED result
       ELSE /\ cpc' = [cpc EXCEPT ![c] = "done"]
            /\ result' = [result EXCEPT ![c] = Get(batch_output[current][1], c)]
    /\ UNCHANGED <<current, nParades, status, batch_input, batch_output, waiters,
                   tpc, calls, bulkArgs, bulkOut, outKind, notified, payload, parade, admitAt,
                   clock, ovars>>
Resume(c) ==
    /\ cpc[c] = "woken"
    /\ IF batch_output[parade[c]] = None
       THEN /\ cpc' = [cpc EXCEPT ![c] = "raised"]     \* AttributeError on None
            /\ UNCHANGED result
       ELSE /\ cpc' = [cpc EXCEPT ![c] = "done"]
            /\ result' = [result EXCEPT ![c] = Get(batch_output[parade[c]][1], c)]
    /\ UNCHANGED <<current, nParades, status, batch_input, batch_output, waiters,
                   tpc, calls, bulkArgs, bulkOut, outKind, notified, payload, parade, admitAt,
                   clock, ovars>>

Next ==
    \/ \E c \in Callers, d \in Payloads : Submit(c, d)
    \/ \E p \in Parades : StartWait(p)
    \/ \E p \in Parades : WindowElapsed(p)
    \/ \E p \in Parades, n \in 0..(NumCallers + 1) : BulkReturn(p, n)
    \/ \E p \in Parades : BulkRaise(p)
    \/ \E c \in Callers : Resume(c)

Spec == Init /\ [][Next]_vars

\* The event loop runs every ready task, the timer fires, and the bulk call
\* ends (by returning or by raising); requests arrive when clients send them.
Fairness ==
    /\ \A p \in Parades : WF_vars(StartWait(p))
    /\ \A p \in Parades : WF_vars(WindowElapsed(p))
    /\ \A p \in Parades :
          WF_vars(\/ BulkRaise(p)
                  \/ \E n \in 0..(NumCallers + 1) : BulkReturn(p, n))
    /\ \A c \in Callers : WF_vars(Resume(c))

FairSpec == Spec /\ Fairness

\* The dispatcher with the bulk function add_batch_handler gives it, which
\* besides returning resps or raising has the resps-is-None return.
BNext ==
    \/ Next
    \/ \E p \in Parades : BulkFallback(p)

BatchSpec == Init /\ [][BNext]_vars

\* ====================================================== claims, dispatcher
Admitted(p) == {c \in Callers : parade[c] = p /\ admitAt[c] > 0}
Called(p) == tpc[p] \in {"calling", "finished", "raised"}

\* The position of caller c among the callers admitted to its Parade, by the
\* order in which feed admitted them.
Pos(c) == 1 + Cardinality({c2 \in Admitted(parade[c]) : admitAt[c2] < admitAt[c]})

\* C1: the bulk function is called with the payloads in admission order, and
\* when it returns as many outputs as it got inputs, each caller's submit
\* returns the output at the position of its own payload, and no other
\* caller returns that output.
C1_OrderPreserved ==
    \A p \in Parades : Called(p) =>
        /\ Len(bulkArgs[p]) = Cardinality(Admitted(p))
        /\ \A c \in Admitted(p) :
              /\ bulkArgs[p][Pos(c)] = payload[c]
              /\ (cpc[c] = "done" /\ Len(bulkOut[p]) = Len(bulkArgs[p])) =>
                    /\ result[c] = bulkOut[p][Pos(c)]
                    /\ \A c2 \in Callers \ {c} : result[c2] # bulkOut[p][Pos(c)]

C1_Witness ==
    \E p \in Parades :
        /\ Cardinality(Admitted(p)) >= 2
        /\ Len(bulkOut[p]) = Len(bulkArgs[p])
        /\ \A c \in Admitted(p) : cpc[c] = "done" /\ Pos(c) # c
        /\ \E c1, c2 \in Admitted(p) : payload[c1] # payload[c2]

\* C2: at most one Parade made by the dispatcher has status OPEN.
OpenParades == {p \in 1..nParades : status[p] = STATUS_OPEN}

C2_AtMostOneOpen == Cardinality(OpenParades) <= 1

C2_Witness ==
    /\ nParades >= 2
    /\ OpenParades = {nParades}
    /\ \E p \in 1..(nParades - 1) : tpc[p] = "calling"
    /\ Cardinality(Admitted(nParades)) >= 2

\* C3: if the bulk function raises for a Parade, every caller admitted to it
\* has its submit complete with a failure (an exception), none stays blocked.
C3_FailureDelivered ==
    \A c \in Callers :
        (parade[c] # NoParade /\ tpc[parade[c]] = "raised") ~> (cpc[c] = "raised")

\* C4: if the bulk function of a Parade returns, every caller admitted to it
\* is eventually woken and its submit returns; no caller is suspended in
\* wait() on a Parade whose notify_all has already run.
NoWaitAfterNotify ==
    \A c \in Callers : cpc[c] = "waiting" => ~notified[parade[c]]

C4_NoLostWakeup ==
    /\ []NoWaitAfterNotify
    /\ \A c \in Callers :
          (parade[c] # NoParade /\ tpc[parade[c]] = "finished") ~> (cpc[c] = "done")

C4_Witness ==
    \E c \in Callers :
        /\ cpc[c] = "done"
        /\ Cardinality(Admitted(parade[c])) >= 2
        /\ Pos(c) = Cardinality(Admitted(parade[c]))

\* C5: a payload is added to a Parade's input mapping only while its status
\* is OPEN; once the status has left OPEN the mapping never changes, and the
\* inputs the bulk function was called with are the mapping's values.
InputsAreArgs ==
    \A p \in Parades : Called(p) => bulkArgs[p] = Values(batch_input[p])

C5_AdmitOnlyWhileOpen ==
    /\ []InputsAreArgs
    /\ [][\A p \in Parades :
             batch_input'[p] # batch_input[p] =>
                 (status[p] = STATUS_OPEN /\ status'[p] = STATUS_OPEN)]_vars

C5_Witness ==
    \E p \in Parades, c \in Callers :
        /\ tpc[p] = "calling"
        /\ status[p] = STATUS_CLOSED
        /\ Len(batch_input[p]) >= 1
        /\ parade[c] # NoParade
        /\ parade[c] # p
        /\ \A c2 \in Admitted(p) : admitAt[c2] < admitAt[c]

\* C6: a submit that arrives while the dispatcher's current Parade is OPEN is
\* admitted to that Parade and no Parade is made for it; the bulk function is
\* called once per Parade, with the payloads of all the callers admitted.
C6_SameWindowSameParade ==
    /\ [](\A p \in Parades :
            /\ calls[p] <= 1
            /\ Called(p) => /\ calls[p] = 1
                            /\ Len(bulkArgs[p]) = Cardinality(Admitted(p))
                            /\ \A c \in Admitted(p) :
                                  \E i \in 1..Len(batch_input[p]) :
                                      /\ batch_input[p][i] = <<c, payload[c]>>
                                      /\ bulkArgs[p][i] = payload[c])
    /\ [][\A c \in Callers :
             (/\ cpc[c] = "idle"
              /\ cpc'[c] # "idle"
              /\ current # NoParade
              /\ status[current] = STATUS_OPEN) =>
                 /\ parade'[c] = current
                 /\ nParades' = nParades
                 /\ current' = current
                 /\ cpc'[c] = "waiting"]_vars

C6_Witness ==
    /\ nParades = 1
    /\ calls[1] = 1
    /\ Len(bulkArgs[1]) = 3
    /\ Len(bulkOut[1]) = 3
    /\ \A c \in Callers : c <= 3 => /\ cpc[c] = "done"
                                   /\ parade[c] = 1
                                   /\ result[c] = bulkOut[1][Pos(c)]

\* C7: no submit returns a result before the window timer of its Parade has
\* elapsed, the Parade has left OPEN and the Parade's bulk call has completed.
C7_NoEarlyResult ==
    \A c \in Callers :
        cpc[c] = "done" =>
            /\ tpc[parade[c]] = "finished"
            /\ status[parade[c]] # STATUS_OPEN
            /\ calls[parade[c]] = 1

C7_Witness ==
    \E c \in Callers :
        /\ cpc[c] = "done"
        /\ result[c] # None
        /\ \E p \in Parades : p # parade[c] /\ status[p] = STATUS_OPEN /\ tpc[p] = "sleeping"

\* =================================================== handle_batch_request
\* What request.data decodes to, by the branch of the loop body it takes:
\*   "instances"    a JSON object whose "instances" is a list (items)
\*   "scalar"       a JSON object whose "instances" is not a list (items[1])
\*   "inputs"       a JSON object with "inputs" and no "instances"
\*   "neither"      a JSON object with neither
\*   "undecodable"  bytes that are not UTF-8, or text that is not JSON
Shapes ==
    [kind : {"instances"}, n : 0..MaxInst]
        \cup [kind : {"scalar"}, n : {1}]
        \cup [kind : {"inputs", "neither", "undecodable"}, n : {0}]

\* The i-th request of a batch; its instances differ from every other request's
MakeReq(sh, i) == [kind |-> sh.kind, items |-> [j \in 1..sh.n |-> (i - 1) * MaxInst + j]]

\* func: the user's model, applied to the merged tensor, one result per row
Predict(x) == x * 10
Func(tensor) == [k \in 1..Len(tensor) |-> Predict(tensor[k])]

\* api_func_result_to_json
ToJson(r) == <<"json", r>>

\* Response(response=..., status=...)
bad_resp == [status |-> 400, body |-> <<"text", "Bad Input">>]
NotImplementedResp ==
    [status |-> 501, body |-> <<"text", "Column format 'inputs' is not implemented">>]
OkResp(r) == [status |-> 200, body |-> ToJson(r)]

\* One pass of the loop body (lines 121-141) for one request: what it leaves in
\* instances_list[i] and responses[i], or that it raises.  A decoding error
\* reaches the except clause, whose expression json.exceptions.JSONDecodeError
\* raises AttributeError (the json module has no attribute exceptions), so
\* the error leaves handle_batch_request.
DecodeRequest(req) ==
    CASE req.kind = "undecodable" ->
            [tag |-> "raise", instances |-> None, resp |-> bad_resp]
      [] req.kind = "instances" ->
            [tag |-> "ok", instances |-> Some(req.items), resp |-> bad_resp]
      [] req.kind = "scalar" ->       \* instances = [instances]
            [tag |-> "ok", instances |-> Some(<<req.items[1]>>), resp |-> bad_resp]
      [] req.kind = "inputs" ->
            [tag |-> "ok", instances |-> None, resp |-> NotImplementedResp]
      [] OTHER ->
            [tag |-> "ok", instances |-> None, resp |-> bad_resp]

\* concat_list (bentoml/handlers/utils.py) is not among the sources.  On lists
\* it concatenates them and records each one's slice of the result.  What it
\* does with a None entry is not known: it may raise (iterating None), record
\* None as the entry's slice, or record an empty slice.
ConcatNoneModes == {"raise", "none", "empty"}

RECURSIVE ConcatUpTo(_, _)
ConcatUpTo(lst, i) ==
    IF i = 0 THEN <<>>
    ELSE ConcatUpTo(lst, i - 1) \o (IF lst[i] = None THEN <<>> ELSE lst[i][1])

concat_list(lst, mode) ==
    [datas |-> ConcatUpTo(lst, Len(lst)),
     slices |-> [i \in 1..Len(lst) |->
                    IF lst[i] = None /\ mode = "none"
                    THEN None
                    ELSE Some(<<Len(ConcatUpTo(lst, i - 1)), Len(ConcatUpTo(lst, i))>>)]]

\* merged_result[s] for s = slice(a, b), Python's 0-based half-open slice,
\* clamped to the list
PySlice_OffByOne(seq, a, b) ==
    [k \in 1..(Min(b + 1, Len(seq)) - Min(a + 1, Len(seq))) |-> seq[Min(a + 1, Len(seq)) + k]]
PySlice(seq, a, b) ==
    [k \in 1..(Min(b, Len(seq)) - Min(a, Len(seq))) |-> seq[Min(a, Len(seq)) + k]]

\* handle_batch_request(requests, func): the returned list, or that it raised
handle_batch_request(reqs, mode) ==
    LET N == Len(reqs)
        dec == [i \in 1..N |-> DecodeRequest(reqs[i])]
        raised == [pc |-> "raised", responses |-> <<>>]
    IN  IF \E i \in 1..N : dec[i].tag = "raise"
        THEN raised                                 \* AttributeError, line 138
        ELSE
        LET instances_list == [i \in 1..N |-> dec[i].instances]
            responses0 == [i \in 1..N |-> dec[i].resp]
        IN  IF mode = "raise" /\ \E i \in 1..N : instances_list[i] = None
            THEN raised                             \* TypeError in concat_list
            ELSE
            LET cl == concat_list(instances_list, mode)
                merged_result == Func(cl.datas)
            IN  IF \E i \in 1..N : cl.slices[i] = None
                THEN raised                         \* TypeError, merged_result[None]
                ELSE
                LET results == [i \in 1..N |->
                                   PySlice(merged_result, cl.slices[i][1][1], cl.slices[i][1][2])]
                IN  [pc |-> "returned",
                     responses |-> [i \in 1..N |->
                                       IF i <= Len(results) THEN OkResp(results[i])
                                       ELSE responses0[i]]]

HInit ==
    /\ MInit
    /\ SInit
    /\ FInit
    /\ hpc = "ready"
    /\ responses = <<>>
    /\ \E n \in 1..MaxReqs : \E sh \in [1..n -> Shapes] :
          requests = [i \in 1..n |-> MakeReq(sh[i], i)]

HandleBatchRequest ==
    /\ hpc = "ready"
    /\ \E mode \in ConcatNoneModes :
          LET out == handle_batch_request(requests, mode)
          IN  /\ hpc' = out.pc
              /\ responses' = out.responses
    /\ UNCHANGED <<requests, mvars, svars, fvars>>

HNext == HandleBatchRequest

HandlerSpec == HInit /\ [][HNext]_vars

\* ========================================================= claims, handler
Decodable(req) == req.kind \in {"instances", "scalar"}
HDone == hpc \in {"returned", "raised"}

\* What request i alone asks for: the model's results for its own instances
OwnResults(req) == [k \in 1..Len(req.items) |-> Predict(req.items[k])]

\* C8: when a batch holds a request that cannot be decoded or has no usable
\* instances, every other request of the batch still gets a 200 response
\* holding exactly the results for its own instances.
C8_PartialDecodeIsolation ==
    (HDone /\ \E i \in 1..Len(requests) : ~Decodable(requests[i])) =>
        \A i \in 1..Len(requests) :
            Decodable(requests[i]) =>
                /\ hpc = "returned"
                /\ responses[i] = OkResp(OwnResults(requests[i]))

\* C9: a request that cannot be decoded gets the 400 Bad Input response in
\* the returned list and a request in the 'inputs' column format gets the
\* 501 response; neither is replaced by a 200 response.
C9_ErrorResponseKept ==
    HDone =>
        \A i \in 1..Len(requests) :
            /\ requests[i].kind = "undecodable" =>
                  (hpc = "returned" /\ responses[i] = bad_resp)
            /\ requests[i].kind = "inputs" =>
                  (hpc = "returned" /\ responses[i] = NotImplementedResp)

\* C10: for a batch of decodable requests with instance lists of any sizes,
\* merging and splitting gives one response per request, in request order,
\* response i holding the results of exactly request i's instances; the
\* slices are contiguous, disjoint and cover the merged result.
SlicesPartition(lst) ==
    LET cl == concat_list(lst, "none")
        N == Len(lst)
    IN  /\ Len(cl.slices) = N
        /\ \A i \in 1..N :
              /\ cl.slices[i] # None
              /\ cl.slices[i][1][1] = (IF i = 1 THEN 0 ELSE cl.slices[i - 1][1][2])
              /\ cl.slices[i][1][2] - cl.slices[i][1][1] = Len(lst[i][1])
        /\ cl.slices[N][1][2] = Len(cl.datas)

C10_MergeSplitRoundTrip ==
    (HDone /\ \A i \in 1..Len(requests) : Decodable(requests[i])) =>
        /\ hpc = "returned"
        /\ Len(responses) = Len(requests)
        /\ \A i \in 1..Len(requests) : responses[i] = OkResp(OwnResults(requests[i]))
        /\ SlicesPartition([i \in 1..Len(requests) |-> DecodeRequest(requests[i]).instances])

C10_Witness ==
    /\ hpc = "returned"
    /\ Len(requests) = 3
    /\ \A i \in 1..3 : Decodable(requests[i])
    /\ Len(requests[1].items) = 2
    /\ Len(requests[2].items) = 0
    /\ requests[3].kind = "scalar"
    /\ responses[3] = OkResp(<<Predict(requests[3].items[1])>>)

\* ========================================================== MarshalService
\* add_batch_handler line 107: if api_name not in self.batch_handlers
ShouldRegister_Always(name) == TRUE
ShouldRegister(name) == batch_handlers[name] = NoHandler

\* add_batch_handler(api_name, max_latency): a ParadeDispatcher(max_latency)
\* is made and stored under api_name, unless api_name is already there
AddBatchHandler(name, latency) ==
    /\ Len(interval) < NumNames * NumLatencies
    /\ latency <= 1 + Cardinality({interval[k] : k \in 1..Len(interval)})
                                     \* windows are opaque: numbered by first use
    /\ IF ShouldRegister(name)
       THEN /\ interval' = Append(interval, latency)
            /\ batch_handlers' = [batch_handlers EXCEPT ![name] = Len(interval) + 1]
       ELSE UNCHANGED <<batch_handlers, interval>>
    /\ reasked' = (reasked \/ (batch_handlers[name] # NoHandler
                                /\ interval[batch_handlers[name]] # latency))
    /\ UNCHANGED <<rpc, rname, rdisp, sent, answer, rresp, mvars, hvars, fvars>>

\* request_dispatcher line 141: if api_name in self.batch_handlers
IsBatched_Never(name) == FALSE
IsBatched(name) == batch_handlers[name] # NoHandler

\* The bytes of request r (request.read()), unlike those of any other request
Body(r) == <<"body", r>>

\* request_dispatcher up to its first suspension: the request is handed to the
\* name's dispatcher, or _relay_handler reads it and posts it to the backend
RequestDispatcher(r, name) ==
    /\ rpc[r] = "idle"
    /\ \A r2 \in Requests : r2 < r => rpc[r2] # "idle"   \* requests are numbered by arrival
    /\ rname' = [rname EXCEPT ![r] = name]
    /\ IF IsBatched(name)
       THEN /\ rpc' = [rpc EXCEPT ![r] = "batched"]
            /\ rdisp' = [rdisp EXCEPT ![r] = batch_handlers[name]]
            /\ UNCHANGED sent
       ELSE /\ rpc' = [rpc EXCEPT ![r] = "relaying"]
            /\ sent' = [sent EXCEPT ![r] = Append(@, <<name, Body(r)>>)]
            /\ UNCHANGED rdisp
    /\ UNCHANGED <<batch_handlers, interval, reasked, answer, rresp, mvars, hvars, fvars>>

\* What the backend may answer
BackendStatuses == {200, 500}
BackendBody(r) == <<"answer", r>>      \* the bytes of the backend's answer to r's call

\* _relay_handler lines 177-179: Response(status=resp.status, body=body, ...)
RelayResponse_Always200(st, body) == [status |-> 200, body |-> body]
RelayResponse(st, body) == [status |-> st, body |-> body]

\* _relay_handler after the backend answered: body = await resp.read(), return
BackendAnswers(r, st, body) ==
    /\ rpc[r] = "relaying"
    /\ rpc' = [rpc EXCEPT ![r] = "relayed"]
    /\ answer' = [answer EXCEPT ![r] = Some([status |-> st, body |-> body])]
    /\ rresp' = [rresp EXCEPT ![r] = Some(RelayResponse(st, body))]
    /\ UNCHANGED <<batch_handlers, interval, reasked, rname, rdisp, sent, mvars, hvars, fvars>>

\* _relay_handler when client.post raises: the exception leaves the handler
RelayFails(r) ==
    /\ rpc[r] = "relaying"
    /\ rpc' = [rpc EXCEPT ![r] = "failed"]
    /\ UNCHANGED <<batch_handlers, interval, reasked, rname, rdisp, sent, answer, rresp,
                   mvars, hvars, fvars>>

\* request_dispatcher lines 142-143: the dispatcher's _func returned
BatchedReturns(r) ==
    /\ rpc[r] = "batched"
    /\ rpc' = [rpc EXCEPT ![r] = "batched_done"]
    /\ rresp' = [rresp EXCEPT ![r] = Some([status |-> 0, body |-> <<"dispatcher", rdisp[r]>>])]
    /\ UNCHANGED <<batch_handlers, interval, reasked, rname, rdisp, sent, answer, mvars, hvars, fvars>>

SNext ==
    \/ \E name \in Names, latency \in Latencies : AddBatchHandler(name, latency)
    \/ \E r \in Requests, name \in Names : RequestDispatcher(r, name)
    \/ \E r \in Requests, st \in BackendStatuses : BackendAnswers(r, st, BackendBody(r))
    \/ \E r \in Requests : RelayFails(r)
    \/ \E r \in Requests : BatchedReturns(r)

ServiceSpec == Init /\ [][SNext]_vars

\* ================================================= claims, MarshalService
Registered == {n \in Names : batch_handlers[n] # NoHandler}

\* C12: registration is idempotent: each registered name maps to exactly one
\* dispatcher, the one its first registration made, and a later registration
\* of the name changes neither the mapping nor that dispatcher's window.
C12_RegistrationIdempotent ==
    /\ [](/\ Len(interval) = Cardinality(Registered)
          /\ \A n \in Registered : batch_handlers[n] \in 1..Len(interval)
          /\ \A n1, n2 \in Registered :
                batch_handlers[n1] = batch_handlers[n2] => n1 = n2)
    /\ [][\A n \in Registered :
             /\ batch_handlers'[n] = batch_handlers[n]
             /\ interval'[batch_handlers[n]] = interval[batch_handlers[n]]]_vars

C12_Witness ==
    /\ Cardinality(Registered) = 2
    /\ \E n1, n2 \in Registered : n1 < n2 /\ batch_handlers[n1] > batch_handlers[n2]
    /\ reasked
    /\ \E r \in Requests : rpc[r] = "batched" /\ rdisp[r] = 2

DirectFeed(p, d, optimized) ==
    /\ nFeeds < MaxFeeds
    /\ p \in 1..nParades
    /\ nFeeds' = nFeeds + 1
    /\ feedOn' = p
    /\ IF status[p] = STATUS_OPEN \/ optimized
       THEN /\ batch_input' = [batch_input EXCEPT ![p] = feed(@, NumCallers + nFeeds + 1, d)]
            /\ feedRet' = "True"
       ELSE /\ feedRet' = "AssertionError"
            /\ UNCHANGED batch_input
    /\ UNCHANGED <<current, nParades, status, batch_output, waiters, tpc, calls,
                   bulkArgs, bulkOut, outKind, notified, cpc, payload, parade, result,
                   admitAt, clock, hvars, svars>>

FNext ==
    \/ Next
    \/ \E p \in Parades, d \in Payloads, optimized \in BOOLEAN : DirectFeed(p, d, optimized)

FeedSpec == Init /\ [][FNext]_vars

\* C14: feed called on a Parade whose status is not OPEN returns a failure
\* value, does not raise, and leaves the Parade's input mapping unchanged.
C14_FeedFailsSoftly ==
    [][\A p \in Parades :
          (nFeeds' # nFeeds /\ feedOn' = p /\ status[p] # STATUS_OPEN) =>
              /\ feedRet' = "False"
              /\ batch_input'[p] = batch_input[p]]_vars


\* ============================================= claims, dispatcher (C11-C20)
\* C11: if the backend's merged response cannot be split (resps is None) or
\* gives fewer outputs than the Parade has inputs, every caller of the Parade
\* gets a response: its submit returns, and does not return None.
ShortOrUnparsable(p) ==
    /\ tpc[p] = "finished"
    /\ (outKind[p] = "fallback" \/ Len(bulkOut[p]) < Len(bulkArgs[p]))

C11_ShortResponseFails ==
    \A c \in Callers :
        (parade[c] # NoParade /\ ShortOrUnparsable(parade[c]) /\ cpc[c] \in {"done", "raised"}) =>
            (cpc[c] = "done" /\ result[c] # None)

\* C15: a Parade's status never moves backward, and a Parade whose bulk call
\* has succeeded has status RETURNED in every later state, in particular in
\* the states where its callers resume.
C15_StaysReturned ==
    /\ [](\A p \in Parades : tpc[p] = "finished" => status[p] = STATUS_RETURNED)
    /\ [][\A p \in Parades : status'[p] >= status[p]]_vars

\* C16: once the bulk function has raised for a Parade, in every later state
\* the Parade's status is CLOSED, its output mapping is unset and its
\* notify_all has not run.
RaisedIsTerminal ==
    \A p \in Parades : tpc[p] = "raised" =>
        /\ status[p] = STATUS_CLOSED
        /\ batch_output[p] = None
        /\ ~notified[p]

C16_RaisedStaysClosed ==
    /\ []RaisedIsTerminal
    /\ [][\A p \in Parades : tpc[p] = "raised" => tpc'[p] = "raised"]_vars

C16_Witness ==
    \E p, q \in Parades, c \in Callers :
        /\ tpc[p] = "raised"
        /\ waiters[p] # {}
        /\ q > p
        /\ parade[c] = q
        /\ cpc[c] = "done"

\* C17: every step in which a caller submits ends with the caller admitted:
\* the Parade get_parade gave it is OPEN, holds the caller's item, and the
\* caller is suspended in wait(); feed's assertion fails for no caller.
C17_NoAdmissionRace ==
    /\ [](\A c \in Callers : cpc[c] = "raised" => admitAt[c] > 0)
    /\ [][\A c \in Callers :
             (cpc[c] = "idle" /\ cpc'[c] # "idle") =>
                 /\ cpc'[c] = "waiting"
                 /\ status'[parade'[c]] = STATUS_OPEN
                 /\ Get(batch_input'[parade'[c]], c) = payload'[c]]_vars

C17_Witness ==
    \E c \in Callers, p \in Parades :
        /\ status[p] = STATUS_CLOSED
        /\ tpc[p] \in {"calling", "finished", "raised"}
        /\ current = p + 1
        /\ parade[c] = p + 1
        /\ cpc[c] = "waiting"
        /\ status[p + 1] = STATUS_OPEN

\* C18: a Parade has a start_wait task exactly when it has been made, the
\* task is created in the step that makes the Parade and that step leaves the
\* submitting caller suspended in wait(), not on the task; the bulk function
\* is called at most once per Parade, and the calls made never outnumber the
\* Parades made.
RECURSIVE TotalCalls(_)
TotalCalls(n) == IF n = 0 THEN 0 ELSE calls[n] + TotalCalls(n - 1)

OneTaskOneCall ==
    /\ \A p \in Parades : (p <= nParades) <=> (tpc[p] # "none")
    /\ \A p \in Parades : calls[p] <= 1
    /\ TotalCalls(NumCallers) <= nParades

C18_OneTimerOneCall ==
    /\ []OneTaskOneCall
    /\ [][\A p \in Parades :
             /\ (tpc[p] = "none" /\ tpc'[p] # "none") =>
                    /\ nParades' = p
                    /\ tpc'[p] = "scheduled"
                    /\ \E c \in Callers :
                          cpc[c] = "idle" /\ cpc'[c] = "waiting" /\ parade'[c] = p
             /\ tpc'[p] = "scheduled" => tpc[p] \in {"none", "scheduled"}
             /\ calls'[p] # calls[p] => (tpc[p] = "sleeping" /\ calls[p] = 0)]_vars

C18_Witness ==
    /\ nParades >= 2
    /\ \A p \in 1..nParades : calls[p] = 1
    /\ \E p \in 1..nParades : tpc[p] = "raised"
    /\ \E p \in 1..nParades : tpc[p] = "finished"

\* C19: when a caller has been woken and is about to look up its token, its
\* Parade's output mapping is set, and if the bulk call returned one output
\* per input the mapping holds an entry for every caller admitted to the
\* Parade; no admitted caller fails on an unset mapping.
C19_OutputSetBeforeWake ==
    \A c \in Callers :
        /\ cpc[c] = "woken" =>
              /\ batch_output[parade[c]] # None
              /\ Len(bulkOut[parade[c]]) = Len(bulkArgs[parade[c]]) =>
                    \A c2 \in Admitted(parade[c]) :
                        Get(batch_output[parade[c]][1], c2) # None
        /\ admitAt[c] > 0 => cpc[c] # "raised"

C19_Witness ==
    \E c \in Callers :
        /\ cpc[c] = "woken"
        /\ Cardinality(Admitted(parade[c])) >= 2
        /\ Len(bulkOut[parade[c]]) = Len(bulkArgs[parade[c]])
        /\ \E c2 \in Admitted(parade[c]) : cpc[c2] = "done"

\* C20: every caller that has submitted is in the input mapping of exactly
\* one Parade, once, and that is the Parade it waits on; the bulk call of that
\* Parade, and of no other, gets its payload, once; and the caller returns
\* the entry of its own Parade's output mapping, whatever the dispatcher's
\* current Parade is by then.
Occurrences(p, c) == Cardinality({i \in 1..Len(batch_input[p]) : batch_input[p][i][1] = c})

C20_ExactlyOneBatch ==
    \A c \in Callers : cpc[c] # "idle" =>
        /\ parade[c] \in 1..nParades
        /\ \A p \in Parades : Occurrences(p, c) = (IF p = parade[c] THEN 1 ELSE 0)
        /\ Called(parade[c]) =>
              /\ calls[parade[c]] = 1
              /\ Len(bulkArgs[parade[c]]) = Len(batch_input[parade[c]])
              /\ bulkArgs[parade[c]][Pos(c)] = payload[c]
        /\ cpc[c] = "done" =>
              /\ batch_output[parade[c]] # None
              /\ result[c] = Get(batch_output[parade[c]][1], c)
              /\ Len(bulkOut[parade[c]]) >= Pos(c) => result[c] = <<parade[c], Pos(c)>>

C20_Witness ==
    \E c, c2 \in Callers :
        /\ cpc[c] = "done"
        /\ result[c] = <<parade[c], Pos(c)>>
        /\ current # parade[c]
        /\ parade[c2] = current
        /\ tpc[current] = "finished"
        /\ cpc[c2] = "done"

====
